---------------------------- MODULE Spec2Model ----------------------------
(***************************************************************************)
(* Model of mpv-http-ytproxy (src/src/main.rs): the Range-header rewriter  *)
(* `mitm`, the tiered buffer pool (BufferPool / ChunkDataPool) and the     *)
(* prefetch tracker (ParallelDownloadManager).                             *)
(*                                                                         *)
(* u64 / usize are modelled as WordBits-bit unsigned integers; header      *)
(* values are sequences of one-character strings so that parsing and       *)
(* formatting are computed, not assumed.                                   *)
(***************************************************************************)
EXTENDS Integers, Sequences, FiniteSets, TLC

\* ------------------------------------------------------------------ bounds
\* width of the modelled u64 / usize
WordBits == 26
\* how many values next to 0 and next to u64::MAX are enumerated
Edge == 1

U64_MAX == 2^WordBits - 1

\* --------------------------------------------------------- u64 arithmetic
Min(a, b) == IF a <= b THEN a ELSE b

\* u64::saturating_sub
SaturatingSub(a, b) == IF a >= b THEN a - b ELSE 0

\* u64::saturating_add
SaturatingAdd(a, b) == IF a + b > U64_MAX THEN U64_MAX ELSE a + b

\* u64::wrapping_add (the value an unchecked `+` yields in a release build)
WrappingAdd(a, b) == (a + b) % (U64_MAX + 1)

\* u64::wrapping_sub
WrappingSub(a, b) == (a - b + U64_MAX + 1) % (U64_MAX + 1)

\* Option<u64> as a sequence of length <= 1: <<>> is None, <<v>> is Some(v)
None == <<>>
Some(v) == <<v>>
IsSome(o) == Len(o) = 1
Unwrap(o) == o[1]

\* a mutant of CheckedAdd: the sum wraps instead of being refused
CheckedAddWrapping(a, b) == Some(WrappingAdd(a, b))

\* u64::checked_add
CheckedAdd(a, b) == IF a + b > U64_MAX THEN None ELSE Some(a + b)

\* ------------------------------------------------------------------ text
Digits == <<"0", "1", "2", "3", "4", "5", "6", "7", "8", "9">>

IsDigit(c) == \E i \in 1..10 : Digits[i] = c

DigitVal(c) == (CHOOSE i \in 1..10 : Digits[i] = c) - 1

\* a byte outside visible ASCII, as it may arrive in a header value
NonTextByte == "\\x80"

RECURSIVE FormatU64(_)
\* format!("{}", n) for an unsigned integer: decimal, no sign, no padding
FormatU64(n) ==
    IF n < 10 THEN <<Digits[n + 1]>>
    ELSE FormatU64(n \div 10) \o <<Digits[(n % 10) + 1]>>

RECURSIVE ParseDigits(_, _)
\* the digit loop of u64::from_str: None on a non-digit or on overflow
ParseDigits(s, acc) ==
    IF s = <<>> THEN Some(acc)
    ELSE IF ~IsDigit(Head(s)) THEN None
    ELSE IF acc * 10 + DigitVal(Head(s)) > U64_MAX THEN None
    ELSE ParseDigits(Tail(s), acc * 10 + DigitVal(Head(s)))

\* a mutant of ParseU64: the empty string reads as 0
ParseU64EmptyIsZero(s) ==
    IF s = <<>> THEN Some(0)
    ELSE IF Head(s) = "+" THEN (IF Len(s) = 1 THEN None ELSE ParseDigits(Tail(s), 0))
    ELSE ParseDigits(s, 0)

\* str::parse::<u64>(): an optional leading '+', then at least one digit
ParseU64(s) ==
    IF s = <<>> THEN None
    ELSE IF Head(s) = "+" THEN (IF Len(s) = 1 THEN None ELSE ParseDigits(Tail(s), 0))
    ELSE ParseDigits(s, 0)

\* str::strip_prefix: Option<rest>, here Option as a sequence of length <= 1
StripPrefix(s, p) ==
    IF Len(s) >= Len(p) /\ SubSeq(s, 1, Len(p)) = p
    THEN Some(SubSeq(s, Len(p) + 1, Len(s)))
    ELSE None

\* str::split_once: Option<(before, after)> around the first occurrence of c
SplitOnce(s, c) ==
    IF \E i \in 1..Len(s) : s[i] = c
    THEN LET i == CHOOSE k \in 1..Len(s) : s[k] = c /\ \A j \in 1..(k - 1) : s[j] /= c
         IN  Some(<<SubSeq(s, 1, i - 1), SubSeq(s, i + 1, Len(s))>>)
    ELSE None

\* HeaderValue::to_str succeeds only when every byte is visible ASCII
ToStrOk(val) == \A i \in 1..Len(val) : val[i] /= NonTextByte

\* HeaderValue::from_str succeeds on visible ASCII
FromStrOk(s) == \A i \in 1..Len(s) : s[i] /= NonTextByte

BytesPrefix == <<"b", "y", "t", "e", "s", "=">>

\* ------------------------------------------------- mitm: the header rewrite
\* a mutant of ShouldModify: `end - start` wraps instead of saturating
ShouldModifyWrapping(start, end_str, chunk) ==
    IF end_str = <<>> THEN TRUE
    ELSE IF IsSome(ParseU64(end_str))
         THEN SaturatingAdd(WrappingSub(Unwrap(ParseU64(end_str)), start), 1) > chunk
         ELSE FALSE

\* lines 664-674: whether the range is to be capped
ShouldModify(start, end_str, chunk) ==
    IF end_str = <<>> THEN TRUE
    ELSE IF IsSome(ParseU64(end_str))
         THEN SaturatingAdd(SaturatingSub(Unwrap(ParseU64(end_str)), start), 1) > chunk
         ELSE FALSE

\* a mutant of NewRange: the end is one past the last byte of the chunk
NewRangeExclusiveEnd(start, new_end_byte) ==
    BytesPrefix \o FormatU64(start) \o <<"-">> \o FormatU64(new_end_byte + 1)

\* line 680: format!("bytes={}-{}", start, new_end_byte)
NewRange(start, new_end_byte) ==
    BytesPrefix \o FormatU64(start) \o <<"-">> \o FormatU64(new_end_byte)

\* lines 676-684, given that the range is to be capped: the outcome and the
\* header value that replaces the old one
Chunked(val, start, chunk) ==
    LET new_end == CheckedAdd(start, chunk)
    IN  IF ~IsSome(new_end)
        THEN [outcome |-> "overflow", header |-> val, start |-> start]
        ELSE LET newrange == NewRange(start, SaturatingSub(Unwrap(new_end), 1))
             IN  IF FromStrOk(newrange)
                 THEN [outcome |-> "rewritten", header |-> newrange, start |-> start]
                 ELSE [outcome |-> "bad_value", header |-> val, start |-> start]

\* lines 652-753 up to the header insert: hdr is the request's Range header
\* (a sequence of length <= 1), chunk is http_chunk_size
RewriteRange(hdr, chunk) ==
    IF hdr = <<>> THEN [outcome |-> "no_range", header |-> <<>>, start |-> 0]
    ELSE LET val == hdr[1]
             same(o) == [outcome |-> o, header |-> val, start |-> 0]
         IN  IF ~ToStrOk(val) THEN same("invalid_utf8")
             ELSE LET range_part == StripPrefix(val, BytesPrefix)
                  IN  IF ~IsSome(range_part) THEN same("not_bytes")
                      ELSE LET parts == SplitOnce(Unwrap(range_part), "-")
                           IN  IF ~IsSome(parts) THEN same("malformed")
                               ELSE LET start_str == Unwrap(parts)[1]
                                        end_str == Unwrap(parts)[2]
                                        start == ParseU64(start_str)
                                    IN  IF ~IsSome(start) THEN same("invalid_start")
                                        ELSE IF ShouldModify(Unwrap(start), end_str, chunk)
                                             THEN Chunked(val, Unwrap(start), chunk)
                                             ELSE same("unchanged")

\* -------------------------------------------------------- the buffer pool
Tiers == {"small", "medium", "large"}

\* ChunkDataPool::new: buffer_size of each tier
BufferSize(tier) ==
    CASE tier = "small" -> 5 * 1024 * 1024
      [] tier = "medium" -> 20 * 1024 * 1024
      [] OTHER -> 50 * 1024 * 1024

\* ChunkDataPool::new: initial_count of each tier
InitialCount(tier) ==
    CASE tier = "small" -> 4
      [] tier = "medium" -> 2
      [] OTHER -> 1

\* ChunkDataPool::new: max_buffers of each tier
MaxBuffers(tier) ==
    CASE tier = "small" -> 16
      [] tier = "medium" -> 8
      [] OTHER -> 4

\* a mutant of TierOfSize: the thresholds themselves fall into the next tier
TierOfSizeExclusive(size) ==
    IF size < 5242880 THEN "small"
    ELSE IF size < 20971520 THEN "medium"
    ELSE "large"

\* the match of get_buffer_for_size on the requested size
TierOfSize(size) ==
    IF size <= 5242880 THEN "small"
    ELSE IF size <= 20971520 THEN "medium"
    ELSE "large"

\* a mutant of TierOfCapacity: the thresholds themselves fall into the next tier
TierOfCapacityExclusive(cap) ==
    IF cap < 5242880 THEN "small"
    ELSE IF cap < 20971520 THEN "medium"
    ELSE "large"

\* the match of ChunkDataPool::return_buffer on buffer.capacity()
TierOfCapacity(cap) ==
    IF cap <= 5242880 THEN "small"
    ELSE IF cap <= 20971520 THEN "medium"
    ELSE "large"

\* vec![0u8; n]; origin records where the buffer was allocated ("heap" when
\* the pool is disabled)
NewVec(n, origin) == [len |-> n, cap |-> n, origin |-> origin]

\* buffer.clear(); buffer.resize(n, 0): the capacity never shrinks
ClearResize(b, n) == [b EXCEPT !.len = n, !.cap = IF b.cap >= n THEN b.cap ELSE n]

\* no buffer held
NoBuf == <<>>

\* BufferPool::new: the pre-allocated free list
InitialBuffers(tier) ==
    [i \in 1..InitialCount(tier) |-> NewVec(BufferSize(tier), tier)]

\* a mutant of MayAllocate: the limit itself still allocates
MayAllocateAtLimit(count, max) == count <= max

\* get_buffer, line 255: whether a new buffer may still be allocated
MayAllocate(count, max) == count < max

\* a mutant of KeepsBuffer: every returned buffer is dropped
KeepsBufferNever(len, max) == FALSE

\* a mutant of KeepsBuffer: the free list fills up to max_buffers
KeepsBufferUpToMax(len, max) == len < max

\* return_buffer, line 271: whether the free list keeps the buffer
KeepsBuffer(len, max) == len < max \div 2

\* ---------------------------------------------------- the prefetch tracker
\* a mutant of AlreadyDownloading: a tracked range's own start is not covered
AlreadyDownloadingPastStart(downloads, prefetch_start) ==
    \E k \in 1..Len(downloads) :
        prefetch_start > downloads[k][1] /\ prefetch_start <= downloads[k][2]

\* should_prefetch, lines 427-429: the candidate's start lies within a
\* tracked range
AlreadyDownloading(downloads, prefetch_start) ==
    \E k \in 1..Len(downloads) :
        prefetch_start >= downloads[k][1] /\ prefetch_start <= downloads[k][2]

\* should_prefetch, line 441: the predicate of downloads.retain, limit being
\* the value of self.prefetch_size * 2
Retained(range, start, limit) == SaturatingSub(start, range[1]) < limit

\* Vec::retain: the kept elements in their order
Retain(downloads, start, limit) ==
    SelectSeq(downloads, LAMBDA r : Retained(r, start, limit))

\* HashMap::entry(url).or_default(): the map with the key present
\* (a key's value is an Option: None while the key is absent)
OrDefault(map, u) ==
    IF IsSome(map[u]) THEN map ELSE [map EXCEPT ![u] = Some(<<>>)]

\* line 420: (prefetch_size / chunk_size).min(max_concurrent as u64 - 1),
\* the subtraction as a release build computes it
ChunksToPrefetch(psize, chunk, maxc) ==
    Min(psize \div chunk, WrappingSub(maxc, 1))

\* line 423: current_end + (i - 1) * chunk_size before reduction to u64
PrefetchStartRaw(current_end, i, chunk) == current_end + (i - 1) * chunk

\* the interval after which return_download_buffer prints again (line 400)
StatsIntervalSecs == 30

\* ------------------------------------------------------------------ state
\* client connections, each carrying one request at a time
NThreads == 3
\* requests arriving in all when the pool is contended
MaxRequests == 9
\* requests arriving one after the other under the prefetch workload
SeqRequests == 3
\* the clock advances in steps of TickSecs seconds up to MaxClock
TickSecs == 15
MaxClock == 30

Threads == 1..NThreads

VARIABLES
    \* configuration, fixed at start-up (main, lines 802-823)
    http_chunk_size, max_concurrent, prefetch_size, enabled, pool_enabled,
    \* whether the build checks integer overflow (debug) or wraps (release)
    overflow_checks,
    \* which kind of traffic the run carries, over how many open connections
    workload, connections,
    \* BufferPool fields, per tier
    available_buffers, allocated_count, pool_hits, pool_misses,
    \* holders of the Mutexes of available_buffers and allocated_count (0: free)
    avail_lock, count_lock,
    \* ParallelDownloadManager: active_downloads, its Mutex and its poison flag
    active_downloads, active_lock, active_poisoned,
    \* history: the arguments and the result of the latest call of
    \* should_prefetch, if it returned (None after a call that panicked)
    last_call,
    \* ParallelDownloadManager: stats_timer and its Mutex; the wall clock
    stats_timer, timer_lock, clock,
    \* per connection: the control point of its request; requests still to come
    pc, reqs_left,
    \* per request: Range header as received, as it stands, the url, the
    \* outcome of the rewrite, the parsed start, calls of the continuation
    received, hdr, url, outcome, start, calls,
    \* history, per request: what mitm has done for it so far, in order
    steps,
    \* per request: the size asked of the pool, who asked, the tier serving
    \* it, the buffer held
    size, ret, tier, buf,
    \* per request, in should_prefetch: loop index, loop bound, prefetch_ranges
    sp_i, sp_n, sp_out,
    \* per request, in mitm: the returned prefetch ranges and the loop position
    ranges, idx,
    \* per request, in return_download_buffer: the local `now`
    now

cfgVars == <<http_chunk_size, max_concurrent, prefetch_size, enabled,
             pool_enabled, overflow_checks, workload, connections>>
poolVars == <<available_buffers, allocated_count, pool_hits, pool_misses,
              avail_lock, count_lock>>
dlVars == <<active_downloads, active_lock, active_poisoned, last_call>>
timerVars == <<stats_timer, timer_lock, clock>>
reqData == <<reqs_left, received, hdr, url, outcome, start, calls>>
reqVars == <<reqData, steps>>
bufVars == <<size, ret, tier, buf>>
spVars == <<sp_i, sp_n, sp_out, ranges, idx>>
vars == <<cfgVars, poolVars, dlVars, timerVars, pc, reqVars, bufVars, spVars, now>>

\* ----------------------------------------------------------------- inputs
Low == 0..Edge
High == (U64_MAX - Edge)..U64_MAX
MiB == 1024 * 1024

\* starts and ends of the Range headers the rewriter is fed
RangeBounds == Low \cup High \cup {5 * MiB}

OpenHeader(s) == BytesPrefix \o FormatU64(s) \o <<"-">>
ClosedHeader(s, e) == BytesPrefix \o FormatU64(s) \o <<"-">> \o FormatU64(e)

WellFormedHeaders ==
    {OpenHeader(s) : s \in RangeBounds}
        \cup {ClosedHeader(s, e) : s \in RangeBounds, e \in RangeBounds}

\* header values the parser refuses, one per way of refusing
MalformedHeaders ==
    { <<>>,
      <<"i", "t", "e", "m", "s", "=", "0", "-", "5">>,
      <<"b", "y", "t", "e", "s", " ", "0", "-", "5">>,
      <<"B", "y", "t", "e", "s", "=", "0", "-">>,
      BytesPrefix,
      BytesPrefix \o <<"5">>,
      BytesPrefix \o <<"-", "5", "0", "0">>,
      BytesPrefix \o <<"-">>,
      BytesPrefix \o <<"a", "-", "5">>,
      BytesPrefix \o <<" ", "0", "-", "5">>,
      BytesPrefix \o <<"0", "-", "5", ",", "7", "-", "9">>,
      BytesPrefix \o <<"0", "-", "5", "-", "7">>,
      BytesPrefix \o <<"0", "-", "x">>,
      BytesPrefix \o <<"0", "-", "-", "1">>,
      BytesPrefix \o <<"0", "-", " ", "5">>,
      BytesPrefix \o <<"0", "-", NonTextByte>>,
      <<NonTextByte>>,
      BytesPrefix \o FormatU64(U64_MAX) \o <<"0", "-">>,
      BytesPrefix \o <<"0", "-">> \o FormatU64(U64_MAX) \o <<"0">> }

\* header values outside the wire format that u64::from_str still accepts
LenientHeaders ==
    { BytesPrefix \o <<"+", "1", "-">>,
      BytesPrefix \o <<"0", "1", "-">>,
      BytesPrefix \o <<"0", "-", "+", "1">>,
      BytesPrefix \o <<"0", "-", "0", "0", "5">> }

\* the Range header of a request: absent (<<>>) or one value
RewriteInputs ==
    {<<>>} \cup {<<v>> : v \in WellFormedHeaders \cup MalformedHeaders \cup LenientHeaders}

\* chunk sizes (main refuses 0, line 781)
RewriteChunks == {1, 2, 5 * MiB, 5 * MiB + 1, 20 * MiB, 20 * MiB + 1, U64_MAX - 1, U64_MAX}

\* chunk sizes on both sides of a tier threshold, for the contended pool
PoolChunks == {20 * MiB, 20 * MiB + 1}

\* the prefetch workload: small ranges of one or two resources
PrefetchStarts == {0, 2, 8}
PrefetchChunks == {2}
PrefetchSizes == {4, 5}
PrefetchConcurrent == {2, 3}

\* the overflow workload: starts next to u64::MAX, and the configurations
\* main accepts unvalidated (lines 802-807): max_concurrent_chunks 0, a
\* prefetch budget of 0, a prefetch budget whose double leaves u64
\* (max_concurrent_chunks 0 only with a small budget: a release build then
\* loops prefetch_size / chunk_size times)
OverflowStarts == {0} \cup High
OverflowChunks == {1, 2}
HalfWord == (U64_MAX + 1) \div 2
OverflowConfigs ==
    {<<m, p>> : m \in 1..3, p \in {0, 4, HalfWord}} \cup {<<0, 4>>}

Urls == {"u1", "u2"}

InputHeaders(w) ==
    CASE w = "rewrite" -> RewriteInputs
      [] w = "pool" -> {<<OpenHeader(0)>>}
      [] w = "overflow" -> {<<>>} \cup {<<OpenHeader(s)>> : s \in OverflowStarts}
      [] OTHER -> {<<OpenHeader(s)>> : s \in PrefetchStarts}

InputUrls(w) == IF w = "prefetch" THEN Urls ELSE {"u1"}

\* how far the clock may run under each workload
Horizon(w) == IF w = "rewrite" THEN MaxClock ELSE 0

\* ------------------------------------------------------------------- Init
InitConfig ==
    \/ /\ workload = "rewrite"
       /\ http_chunk_size \in RewriteChunks
       /\ pool_enabled \in BOOLEAN
       /\ enabled \in BOOLEAN
       /\ max_concurrent = 2
       /\ prefetch_size = 20 * MiB
       /\ overflow_checks \in BOOLEAN
       /\ connections = 1
       /\ reqs_left = 1
    \/ /\ workload = "pool"
       /\ http_chunk_size \in PoolChunks
       /\ pool_enabled = TRUE
       /\ enabled = FALSE
       /\ max_concurrent = 2
       /\ prefetch_size = 20 * MiB
       /\ overflow_checks = FALSE
       /\ connections = NThreads
       /\ reqs_left = MaxRequests
    \/ /\ workload = "prefetch"
       /\ http_chunk_size \in PrefetchChunks
       /\ pool_enabled = FALSE
       /\ enabled = TRUE
       /\ max_concurrent \in PrefetchConcurrent
       /\ prefetch_size \in PrefetchSizes
       /\ overflow_checks = FALSE
       /\ connections \in 1..2
       /\ reqs_left = IF connections = 1 THEN SeqRequests ELSE connections
    \/ /\ workload = "overflow"
       /\ http_chunk_size \in OverflowChunks
       /\ pool_enabled = FALSE
       /\ enabled = TRUE
       /\ \E c \in OverflowConfigs : max_concurrent = c[1] /\ prefetch_size = c[2]
       /\ overflow_checks \in BOOLEAN
       /\ connections = 1
       /\ reqs_left = SeqRequests

Init ==
    /\ InitConfig
    /\ available_buffers = [r \in Tiers |-> InitialBuffers(r)]
    /\ allocated_count = [r \in Tiers |-> InitialCount(r)]
    /\ pool_hits = [r \in Tiers |-> 0]
    /\ pool_misses = [r \in Tiers |-> 0]
    /\ avail_lock = [r \in Tiers |-> 0]
    /\ count_lock = [r \in Tiers |-> 0]
    /\ active_downloads = [u \in Urls |-> None]
    /\ active_lock = 0
    /\ active_poisoned = FALSE
    /\ last_call = None
    /\ stats_timer = None
    /\ timer_lock = 0
    /\ clock = 0
    /\ pc = [t \in Threads |-> "idle"]
    /\ received = [t \in Threads |-> <<>>]
    /\ hdr = [t \in Threads |-> <<>>]
    /\ url = [t \in Threads |-> "u1"]
    /\ outcome = [t \in Threads |-> "none"]
    /\ start = [t \in Threads |-> 0]
    /\ calls = [t \in Threads |-> 0]
    /\ steps = [t \in Threads |-> <<>>]
    /\ size = [t \in Threads |-> 0]
    /\ ret = [t \in Threads |-> "none"]
    /\ tier = [t \in Threads |-> "small"]
    /\ buf = [t \in Threads |-> NoBuf]
    /\ sp_i = [t \in Threads |-> 0]
    /\ sp_n = [t \in Threads |-> 0]
    /\ sp_out = [t \in Threads |-> <<>>]
    /\ ranges = [t \in Threads |-> <<>>]
    /\ idx = [t \in Threads |-> 0]
    /\ now = [t \in Threads |-> 0]

\* ---------------------------------------------------------------- actions
\* the entries of `steps`: the header is replaced (line 684), a buffer of n
\* bytes is handed out (lines 692, 719), a buffer is handed back (lines 701,
\* 723), should_prefetch is called (line 704)
Replaced(header) == <<"replace", <<header>>>>
Acquired(n) == <<"acquire", <<n>>>>
Released == <<"release", <<>>>>
Decided(u, s, c) == <<"decide", <<u, s, c>>>>

\* a mutant of Rewrite: every request borrows a buffer, rewritten or not
RewriteAlwaysBorrows(t) ==
    /\ pc[t] \in {"idle", "done", "panicked"}
    /\ t <= connections
    /\ \A u \in 1..(t - 1) : pc[u] \notin {"idle", "done", "panicked"}
    /\ reqs_left > 0
    /\ reqs_left' = reqs_left - 1
    /\ \E h \in InputHeaders(workload), u \in InputUrls(workload) :
        LET r == RewriteRange(h, http_chunk_size)
        IN  /\ received' = [received EXCEPT ![t] = h]
            /\ url' = [url EXCEPT ![t] = u]
            /\ outcome' = [outcome EXCEPT ![t] = r.outcome]
            /\ start' = [start EXCEPT ![t] = r.start]
            /\ hdr' = [hdr EXCEPT ![t] = IF h = <<>> THEN <<>> ELSE <<r.header>>]
            /\ steps' = [steps EXCEPT ![t] =
                           IF r.outcome = "rewritten" THEN <<Replaced(r.header)>> ELSE <<>>]
    /\ size' = [size EXCEPT ![t] = http_chunk_size]
    /\ ret' = [ret EXCEPT ![t] = "demo"]
    /\ pc' = [pc EXCEPT ![t] = "get"]
    /\ calls' = [calls EXCEPT ![t] = 0]
    /\ ranges' = [ranges EXCEPT ![t] = <<>>]
    /\ idx' = [idx EXCEPT ![t] = 0]
    /\ UNCHANGED <<cfgVars, poolVars, dlVars, timerVars, tier, buf, sp_i, sp_n, sp_out, now>>

\* mitm, lines 641-691: a request arrives with its Range header and its url,
\* on the first open connection that carries none; parse the header, decide,
\* replace it; a rewritten request goes on to borrow a buffer of chunk_size
\* bytes
Rewrite(t) ==
    /\ pc[t] \in {"idle", "done", "panicked"}
    /\ t <= connections
    /\ \A u \in 1..(t - 1) : pc[u] \notin {"idle", "done", "panicked"}
    /\ reqs_left > 0
    /\ reqs_left' = reqs_left - 1
    /\ \E h \in InputHeaders(workload), u \in InputUrls(workload) :
        LET r == RewriteRange(h, http_chunk_size)
        IN  /\ received' = [received EXCEPT ![t] = h]
            /\ url' = [url EXCEPT ![t] = u]
            /\ outcome' = [outcome EXCEPT ![t] = r.outcome]
            /\ start' = [start EXCEPT ![t] = r.start]
            /\ hdr' = [hdr EXCEPT ![t] = IF h = <<>> THEN <<>> ELSE <<r.header>>]
            /\ steps' = [steps EXCEPT ![t] =
                           IF r.outcome = "rewritten" THEN <<Replaced(r.header)>> ELSE <<>>]
            /\ IF r.outcome = "rewritten"
               THEN /\ size' = [size EXCEPT ![t] = http_chunk_size]
                    /\ ret' = [ret EXCEPT ![t] = "demo"]
                    /\ pc' = [pc EXCEPT ![t] = "get"]
               ELSE /\ UNCHANGED <<size, ret>>
                    /\ pc' = [pc EXCEPT ![t] = "call"]
    /\ calls' = [calls EXCEPT ![t] = 0]
    /\ ranges' = [ranges EXCEPT ![t] = <<>>]
    /\ idx' = [idx EXCEPT ![t] = 0]
    /\ UNCHANGED <<cfgVars, poolVars, dlVars, timerVars, tier, buf, sp_i, sp_n, sp_out, now>>

\* mitm, line 755: third_wheel.call(req)
Forward(t) ==
    /\ pc[t] = "call"
    /\ calls' = [calls EXCEPT ![t] = @ + 1]
    /\ pc' = [pc EXCEPT ![t] = "done"]
    /\ UNCHANGED <<cfgVars, poolVars, dlVars, timerVars, reqs_left, received, hdr, url,
                   outcome, start, steps, bufVars, spVars, now>>

\* ChunkDataPool::get_buffer_for_size with the pool disabled (lines 309-311)
GetBufferUnpooled(t) ==
    /\ pc[t] = "get"
    /\ ~pool_enabled
    /\ buf' = [buf EXCEPT ![t] = NewVec(size[t], "heap")]
    /\ pc' = [pc EXCEPT ![t] = "got"]
    /\ UNCHANGED <<cfgVars, poolVars, dlVars, timerVars, reqData, size, ret, tier,
                   spVars, now>>
    /\ steps' = [steps EXCEPT ![t] = Append(@, Acquired(size[t]))]

\* get_buffer_for_size (lines 313-317) and BufferPool::get_buffer up to the
\* pop (lines 243-248): the tier is chosen, its free list locked and popped
GetBuffer(t) ==
    /\ pc[t] = "get"
    /\ pool_enabled
    /\ LET r == TierOfSize(size[t])
       IN  /\ avail_lock[r] = 0
           /\ avail_lock' = [avail_lock EXCEPT ![r] = t]
           /\ tier' = [tier EXCEPT ![t] = r]
           /\ IF available_buffers[r] /= <<>>
              THEN /\ buf' = [buf EXCEPT ![t] =
                                ClearResize(Head(available_buffers[r]), BufferSize(r))]
                   /\ available_buffers' = [available_buffers EXCEPT ![r] = Tail(@)]
                   /\ pc' = [pc EXCEPT ![t] = "gb_hit"]
              ELSE /\ UNCHANGED <<buf, available_buffers>>
                   /\ pc' = [pc EXCEPT ![t] = "gb_count"]
    /\ UNCHANGED <<cfgVars, allocated_count, pool_hits, pool_misses, count_lock, dlVars,
                   timerVars, reqVars, size, ret, spVars, now>>

\* get_buffer, lines 249-250: count the hit, return the buffer (the guard of
\* the free list is dropped on return)
GbHit(t) ==
    /\ pc[t] = "gb_hit"
    /\ pool_hits' = [pool_hits EXCEPT ![tier[t]] = @ + 1]
    /\ avail_lock' = [avail_lock EXCEPT ![tier[t]] = 0]
    /\ pc' = [pc EXCEPT ![t] = "got"]
    /\ UNCHANGED <<cfgVars, available_buffers, allocated_count, pool_misses, count_lock,
                   dlVars, timerVars, reqData, bufVars, spVars, now>>
    /\ steps' = [steps EXCEPT ![t] = Append(@, Acquired(size[t]))]

\* a mutant of GbCount: the exhausted branch sleeps with the free-list guard
GbCountKeepsGuard(t) ==
    /\ pc[t] = "gb_count"
    /\ count_lock[tier[t]] = 0
    /\ IF MayAllocate(allocated_count[tier[t]], MaxBuffers(tier[t]))
       THEN /\ allocated_count' = [allocated_count EXCEPT ![tier[t]] = @ + 1]
            /\ count_lock' = [count_lock EXCEPT ![tier[t]] = t]
            /\ pc' = [pc EXCEPT ![t] = "gb_miss"]
       ELSE /\ pc' = [pc EXCEPT ![t] = "gb_sleep"]
            /\ UNCHANGED <<allocated_count, count_lock>>
    /\ UNCHANGED <<cfgVars, available_buffers, pool_hits, pool_misses, avail_lock, dlVars,
                   timerVars, reqVars, bufVars, spVars, now>>

\* get_buffer, lines 254-256 and 259-263: lock the counter; allocate if the
\* tier is below its maximum, else drop both guards and sleep
GbCount(t) ==
    /\ pc[t] = "gb_count"
    /\ count_lock[tier[t]] = 0
    /\ IF MayAllocate(allocated_count[tier[t]], MaxBuffers(tier[t]))
       THEN /\ allocated_count' = [allocated_count EXCEPT ![tier[t]] = @ + 1]
            /\ count_lock' = [count_lock EXCEPT ![tier[t]] = t]
            /\ pc' = [pc EXCEPT ![t] = "gb_miss"]
            /\ UNCHANGED avail_lock
       ELSE /\ avail_lock' = [avail_lock EXCEPT ![tier[t]] = 0]
            /\ pc' = [pc EXCEPT ![t] = "gb_sleep"]
            /\ UNCHANGED <<allocated_count, count_lock>>
    /\ UNCHANGED <<cfgVars, available_buffers, pool_hits, pool_misses, dlVars, timerVars,
                   reqVars, bufVars, spVars, now>>

\* get_buffer, lines 257-258: count the miss, allocate, return (both guards
\* are dropped on return)
GbMiss(t) ==
    /\ pc[t] = "gb_miss"
    /\ pool_misses' = [pool_misses EXCEPT ![tier[t]] = @ + 1]
    /\ buf' = [buf EXCEPT ![t] = NewVec(BufferSize(tier[t]), tier[t])]
    /\ count_lock' = [count_lock EXCEPT ![tier[t]] = 0]
    /\ avail_lock' = [avail_lock EXCEPT ![tier[t]] = 0]
    /\ pc' = [pc EXCEPT ![t] = "got"]
    /\ UNCHANGED <<cfgVars, available_buffers, allocated_count, pool_hits, dlVars,
                   timerVars, reqData, size, ret, tier, spVars, now>>
    /\ steps' = [steps EXCEPT ![t] = Append(@, Acquired(size[t]))]

\* a mutant of GbRetry: after the sleep the caller is given a fresh buffer
GbRetryGivesUp(t) ==
    /\ pc[t] = "gb_sleep"
    /\ buf' = [buf EXCEPT ![t] = NewVec(BufferSize(tier[t]), tier[t])]
    /\ pc' = [pc EXCEPT ![t] = "got"]
    /\ UNCHANGED <<cfgVars, poolVars, dlVars, timerVars, reqData, size, ret, tier,
                   spVars, now>>
    /\ steps' = [steps EXCEPT ![t] = Append(@, Acquired(size[t]))]

\* a mutant of GbRetry: a retry counts as a miss
GbRetryCountsMiss(t) ==
    /\ pc[t] = "gb_sleep"
    /\ pool_misses' = [pool_misses EXCEPT ![tier[t]] = @ + 1]
    /\ pc' = [pc EXCEPT ![t] = "get"]
    /\ UNCHANGED <<cfgVars, available_buffers, allocated_count, pool_hits, avail_lock,
                   count_lock, dlVars, timerVars, reqVars, bufVars, spVars, now>>

\* get_buffer, lines 263-264: the sleep is over, retry from the top
GbRetry(t) ==
    /\ pc[t] = "gb_sleep"
    /\ pc' = [pc EXCEPT ![t] = "get"]
    /\ UNCHANGED <<cfgVars, poolVars, dlVars, timerVars, reqVars, bufVars, spVars, now>>

\* a mutant of ReturnBufferUnpooled: the disabled pool keeps the buffer
ReturnBufferUnpooledKeeps(t) ==
    /\ pc[t] = "got"
    /\ ~pool_enabled
    /\ available_buffers' =
         [available_buffers EXCEPT ![TierOfCapacity(buf[t].cap)] = Append(@, buf[t])]
    /\ buf' = [buf EXCEPT ![t] = NoBuf]
    /\ pc' = [pc EXCEPT ![t] = "timer"]
    /\ UNCHANGED <<cfgVars, allocated_count, pool_hits, pool_misses, avail_lock,
                   count_lock, dlVars, timerVars, reqData, size, ret, tier, spVars, now>>
    /\ steps' = [steps EXCEPT ![t] = Append(@, Released)]

\* ChunkDataPool::return_buffer with the pool disabled (lines 321-323): the
\* buffer is dropped
ReturnBufferUnpooled(t) ==
    /\ pc[t] = "got"
    /\ ~pool_enabled
    /\ buf' = [buf EXCEPT ![t] = NoBuf]
    /\ pc' = [pc EXCEPT ![t] = "timer"]
    /\ UNCHANGED <<cfgVars, poolVars, dlVars, timerVars, reqData, size, ret, tier,
                   spVars, now>>
    /\ steps' = [steps EXCEPT ![t] = Append(@, Released)]

\* a mutant of ReturnBuffer: dropping a buffer gives its slot back
ReturnBufferFreesSlot(t) ==
    /\ pc[t] = "got"
    /\ pool_enabled
    /\ LET r == TierOfCapacity(buf[t].cap)
       IN  IF buf[t].cap >= BufferSize(r)
           THEN /\ avail_lock[r] = 0
                /\ available_buffers' =
                     [available_buffers EXCEPT ![r] =
                        IF KeepsBuffer(Len(@), MaxBuffers(r)) THEN Append(@, buf[t]) ELSE @]
                /\ allocated_count' =
                     [allocated_count EXCEPT ![r] =
                        IF KeepsBuffer(Len(available_buffers[r]), MaxBuffers(r))
                        THEN @ ELSE @ - 1]
           ELSE UNCHANGED <<available_buffers, allocated_count>>
    /\ buf' = [buf EXCEPT ![t] = NoBuf]
    /\ pc' = [pc EXCEPT ![t] = "timer"]
    /\ steps' = [steps EXCEPT ![t] = Append(@, Released)]
    /\ UNCHANGED <<cfgVars, pool_hits, pool_misses, avail_lock,
                   count_lock, dlVars, timerVars, reqData, size, ret, tier, spVars, now>>

\* ChunkDataPool::return_buffer (lines 325-330) and BufferPool::return_buffer
\* (lines 269-275): the tier follows from the capacity; the buffer is pushed
\* while the free list is short, else dropped
ReturnBuffer(t) ==
    /\ pc[t] = "got"
    /\ pool_enabled
    /\ LET r == TierOfCapacity(buf[t].cap)
       IN  IF buf[t].cap >= BufferSize(r)
           THEN /\ avail_lock[r] = 0
                /\ available_buffers' =
                     [available_buffers EXCEPT ![r] =
                        IF KeepsBuffer(Len(@), MaxBuffers(r)) THEN Append(@, buf[t]) ELSE @]
           ELSE UNCHANGED available_buffers
    /\ buf' = [buf EXCEPT ![t] = NoBuf]
    /\ pc' = [pc EXCEPT ![t] = "timer"]
    /\ UNCHANGED <<cfgVars, allocated_count, pool_hits, pool_misses, avail_lock,
                   count_lock, dlVars, timerVars, reqData, size, ret, tier, spVars, now>>
    /\ steps' = [steps EXCEPT ![t] = Append(@, Released)]

\* return_download_buffer, lines 398-399: lock stats_timer, read the clock
TimerLock(t) ==
    /\ pc[t] = "timer"
    /\ timer_lock = 0
    /\ timer_lock' = t
    /\ now' = [now EXCEPT ![t] = clock]
    /\ pc' = [pc EXCEPT ![t] = "timer_check"]
    /\ UNCHANGED <<cfgVars, poolVars, dlVars, stats_timer, clock, reqVars, bufVars, spVars>>

\* whether return_download_buffer prints (line 400), elapsed() read at `at`
StatsDue(timer, at) ==
    \/ ~IsSome(timer)
    \/ at - Unwrap(timer) >= StatsIntervalSecs

\* return_download_buffer, lines 400-404: print when due and restart the
\* timer; back in mitm, go on to should_prefetch or to the next prefetch range
TimerCheck(t) ==
    /\ pc[t] = "timer_check"
    /\ stats_timer' = IF StatsDue(stats_timer, clock) THEN Some(now[t]) ELSE stats_timer
    /\ timer_lock' = 0
    /\ pc' = [pc EXCEPT ![t] = IF ret[t] = "demo" THEN "decide" ELSE "pf_next"]
    /\ UNCHANGED <<cfgVars, poolVars, dlVars, clock, reqVars, bufVars, spVars, now>>

\* a mutant of ShouldPrefetchDisabled: the entry of the url is created before
\* the test of `enabled`
ShouldPrefetchDisabledCreatesEntry(t) ==
    /\ pc[t] = "decide"
    /\ ~enabled
    /\ active_lock = 0
    /\ active_downloads' = OrDefault(active_downloads, url[t])
    /\ ranges' = [ranges EXCEPT ![t] = <<>>]
    /\ idx' = [idx EXCEPT ![t] = 1]
    /\ pc' = [pc EXCEPT ![t] = "call"]
    /\ UNCHANGED <<cfgVars, poolVars, active_lock, active_poisoned, last_call, timerVars,
                   reqData, bufVars, sp_i, sp_n, sp_out, now>>
    /\ steps' = [steps EXCEPT ![t] = Append(@, Decided(url[t], start[t], http_chunk_size))]

\* should_prefetch with prefetching disabled (lines 407-409): no range comes
\* back, the loop of lines 709-720 has nothing to do
ShouldPrefetchDisabled(t) ==
    /\ pc[t] = "decide"
    /\ ~enabled
    /\ ranges' = [ranges EXCEPT ![t] = <<>>]
    /\ idx' = [idx EXCEPT ![t] = 1]
    /\ pc' = [pc EXCEPT ![t] = "call"]
    /\ UNCHANGED <<cfgVars, poolVars, dlVars, timerVars, reqData, bufVars, sp_i, sp_n,
                   sp_out, now>>
    /\ steps' = [steps EXCEPT ![t] = Append(@, Decided(url[t], start[t], http_chunk_size))]

\* should_prefetch, lines 411-420: lock the table, find or create the entry,
\* compute the loop bound.  A poisoned Mutex makes unwrap() panic; with
\* overflow checks on, so does an overflowing `start + chunk_size` or
\* `max_concurrent as u64 - 1`, and the panic poisons the held Mutex.
SpLock(t) ==
    /\ pc[t] = "decide"
    /\ enabled
    /\ active_lock = 0
    /\ IF active_poisoned
       THEN /\ pc' = [pc EXCEPT ![t] = "panicked"]
            /\ last_call' = None
            /\ UNCHANGED <<active_downloads, active_lock, active_poisoned, sp_i, sp_n, sp_out>>
       ELSE /\ active_downloads' = OrDefault(active_downloads, url[t])
            /\ IF overflow_checks
                  /\ (start[t] + http_chunk_size > U64_MAX \/ max_concurrent = 0)
               THEN /\ active_poisoned' = TRUE
                    /\ last_call' = None
                    /\ pc' = [pc EXCEPT ![t] = "panicked"]
                    /\ UNCHANGED <<active_lock, sp_i, sp_n, sp_out>>
               ELSE /\ active_lock' = t
                    /\ sp_n' = [sp_n EXCEPT ![t] =
                                  ChunksToPrefetch(prefetch_size, http_chunk_size, max_concurrent)]
                    /\ sp_i' = [sp_i EXCEPT ![t] = 1]
                    /\ sp_out' = [sp_out EXCEPT ![t] = <<>>]
                    /\ pc' = [pc EXCEPT ![t] = "sp_loop"]
                    /\ UNCHANGED <<active_poisoned, last_call>>
    /\ UNCHANGED <<cfgVars, poolVars, timerVars, reqData, bufVars, ranges, idx, now>>
    /\ steps' = [steps EXCEPT ![t] = Append(@, Decided(url[t], start[t], http_chunk_size))]

\* should_prefetch, lines 422-435: one iteration of the loop over candidates
SpIter(t) ==
    /\ pc[t] = "sp_loop"
    /\ sp_i[t] <= sp_n[t]
    /\ LET current_end == WrappingAdd(start[t], http_chunk_size)
           raw_start == PrefetchStartRaw(current_end, sp_i[t], http_chunk_size)
           prefetch_start == raw_start % (U64_MAX + 1)
           prefetch_end == WrappingSub(WrappingAdd(prefetch_start, http_chunk_size), 1)
           downloads == Unwrap(active_downloads[url[t]])
       IN  IF overflow_checks
              /\ (raw_start > U64_MAX \/ prefetch_start + http_chunk_size > U64_MAX)
           THEN /\ active_poisoned' = TRUE
                /\ active_lock' = 0
                /\ last_call' = None
                /\ pc' = [pc EXCEPT ![t] = "panicked"]
                /\ UNCHANGED <<active_downloads, sp_i, sp_out>>
           ELSE /\ IF ~AlreadyDownloading(downloads, prefetch_start)
                   THEN /\ sp_out' = [sp_out EXCEPT ![t] =
                                        Append(@, <<prefetch_start, prefetch_end>>)]
                        /\ active_downloads' =
                             [active_downloads EXCEPT ![url[t]] =
                                Some(Append(downloads, <<prefetch_start, prefetch_end>>))]
                   ELSE UNCHANGED <<sp_out, active_downloads>>
                /\ sp_i' = [sp_i EXCEPT ![t] = @ + 1]
                /\ UNCHANGED <<active_lock, active_poisoned, last_call, pc>>
    /\ UNCHANGED <<cfgVars, poolVars, timerVars, reqVars, bufVars, sp_n, ranges, idx, now>>

\* should_prefetch, lines 437-443: track the served range, prune, unlock,
\* return prefetch_ranges
SpFinish(t) ==
    /\ pc[t] = "sp_loop"
    /\ sp_i[t] > sp_n[t]
    /\ LET downloads == Unwrap(active_downloads[url[t]])
           served == <<start[t], WrappingSub(WrappingAdd(start[t], http_chunk_size), 1)>>
           pushed == Append(downloads, served)
           limit == (prefetch_size * 2) % (U64_MAX + 1)
       IN  IF overflow_checks
              /\ (start[t] + http_chunk_size > U64_MAX \/ prefetch_size * 2 > U64_MAX)
           THEN /\ active_downloads' =
                     [active_downloads EXCEPT ![url[t]] =
                        IF start[t] + http_chunk_size > U64_MAX THEN @ ELSE Some(pushed)]
                /\ active_poisoned' = TRUE
                /\ last_call' = None
                /\ pc' = [pc EXCEPT ![t] = "panicked"]
                /\ UNCHANGED <<ranges, idx>>
           ELSE /\ active_downloads' =
                     [active_downloads EXCEPT ![url[t]] = Some(Retain(pushed, start[t], limit))]
                /\ ranges' = [ranges EXCEPT ![t] = sp_out[t]]
                /\ idx' = [idx EXCEPT ![t] = 1]
                /\ last_call' =
                     Some([url |-> url[t], start |-> start[t], out |-> sp_out[t]])
                /\ pc' = [pc EXCEPT ![t] = "pf_next"]
                /\ UNCHANGED active_poisoned
    /\ active_lock' = 0
    /\ UNCHANGED <<cfgVars, poolVars, timerVars, reqVars, bufVars, sp_i, sp_n, sp_out, now>>

\* a mutant of PfNext: only the first returned range gets a buffer
PfNextFirstOnly(t) ==
    /\ pc[t] = "pf_next"
    /\ IF idx[t] <= Len(ranges[t]) /\ idx[t] <= 1
       THEN LET pf_start == ranges[t][idx[t]][1]
                pf_end == ranges[t][idx[t]][2]
            IN  IF overflow_checks /\ pf_end < pf_start
                THEN /\ pc' = [pc EXCEPT ![t] = "panicked"]
                     /\ UNCHANGED <<size, ret, idx>>
                ELSE /\ size' = [size EXCEPT ![t] = WrappingAdd(WrappingSub(pf_end, pf_start), 1)]
                     /\ ret' = [ret EXCEPT ![t] = "pf"]
                     /\ idx' = [idx EXCEPT ![t] = @ + 1]
                     /\ pc' = [pc EXCEPT ![t] = "get"]
       ELSE /\ pc' = [pc EXCEPT ![t] = "call"]
            /\ UNCHANGED <<size, ret, idx>>
    /\ UNCHANGED <<cfgVars, poolVars, dlVars, timerVars, reqVars, tier, buf, sp_i, sp_n,
                   sp_out, ranges, now>>

\* mitm, lines 709-720: the loop over the returned prefetch ranges; each asks
\* the pool for a buffer of pf_end - pf_start + 1 bytes
PfNext(t) ==
    /\ pc[t] = "pf_next"
    /\ IF idx[t] <= Len(ranges[t])
       THEN LET pf_start == ranges[t][idx[t]][1]
                pf_end == ranges[t][idx[t]][2]
            IN  IF overflow_checks /\ pf_end < pf_start
                THEN /\ pc' = [pc EXCEPT ![t] = "panicked"]
                     /\ UNCHANGED <<size, ret, idx>>
                ELSE /\ size' = [size EXCEPT ![t] = WrappingAdd(WrappingSub(pf_end, pf_start), 1)]
                     /\ ret' = [ret EXCEPT ![t] = "pf"]
                     /\ idx' = [idx EXCEPT ![t] = @ + 1]
                     /\ pc' = [pc EXCEPT ![t] = "get"]
       ELSE /\ pc' = [pc EXCEPT ![t] = "call"]
            /\ UNCHANGED <<size, ret, idx>>
    /\ UNCHANGED <<cfgVars, poolVars, dlVars, timerVars, reqVars, tier, buf, sp_i, sp_n,
                   sp_out, ranges, now>>

\* time passes
Tick ==
    /\ clock + TickSecs <= Horizon(workload)
    /\ clock' = clock + TickSecs
    /\ UNCHANGED <<cfgVars, poolVars, dlVars, stats_timer, timer_lock, pc, reqVars,
                   bufVars, spVars, now>>

\* the next step of the request on connection t
Step(t) ==
    \/ Rewrite(t)
    \/ GetBufferUnpooled(t)
    \/ GetBuffer(t)
    \/ GbHit(t)
    \/ GbCount(t)
    \/ GbMiss(t)
    \/ GbRetry(t)
    \/ ReturnBufferUnpooled(t)
    \/ ReturnBuffer(t)
    \/ TimerLock(t)
    \/ TimerCheck(t)
    \/ ShouldPrefetchDisabled(t)
    \/ SpLock(t)
    \/ SpIter(t)
    \/ SpFinish(t)
    \/ PfNext(t)
    \/ Forward(t)

Next ==
    \/ \E t \in Threads : Step(t)
    \/ Tick

Spec == Init /\ [][Next]_vars

\* the pool under load: NThreads connections, every request rewritten, the
\* pool on and prefetching off.  Rewrite and Proceed are the steps of Step
\* that such a request can take; the others are disabled in every state of
\* this workload.
PoolInit == Init /\ workload = "pool"

\* a step of the request that connection t carries
Proceed(t) ==
    \/ GetBuffer(t)
    \/ GbHit(t)
    \/ GbCount(t)
    \/ GbMiss(t)
    \/ GbRetry(t)
    \/ ReturnBuffer(t)
    \/ TimerLock(t)
    \/ TimerCheck(t)
    \/ ShouldPrefetchDisabled(t)
    \/ Forward(t)

PoolNext == \E t \in Threads : Rewrite(t) \/ Proceed(t)

\* each request runs on a runtime thread that is scheduled again and again:
\* a request that can take a step all the time eventually takes one.  Nothing
\* makes a client send a further request: arrivals are not fair.
FairSpec == PoolInit /\ [][PoolNext]_vars /\ \A t \in Threads : WF_vars(Proceed(t))

\* ----------------------------------------------------------------- claims
\* the request of worker t has reached the continuation call (line 755)
AtContinuation(t) == pc[t] \in {"call", "done"}

\* the received Range header is v
Got(t, v) == received[t] = <<v>>

\* the Range header the continuation sees is v
Sends(t, v) == hdr[t] = <<v>>

\* the well-formed headers with the numbers they carry
OpenRanges == {[s |-> s, text |-> OpenHeader(s)] : s \in RangeBounds}
ClosedRanges ==
    {[s |-> s, e |-> e, text |-> ClosedHeader(s, e)] : s \in RangeBounds, e \in RangeBounds}

\* requests carrying one well-formed header, one header the parser refuses
WellFormedRequests == {<<v>> : v \in WellFormedHeaders}
MalformedRequests == {<<v>> : v \in MalformedHeaders}

\* C1 as stated: every open-ended header bytes=<start>- reaches the
\* continuation as bytes=<start>-<start+chunk_size-1>, for every start.
C1_AlwaysRewritten ==
    \A t \in Threads : AtContinuation(t) =>
        \A r \in OpenRanges :
            Got(t, r.text) =>
                Sends(t, ClosedHeader(r.s, r.s + http_chunk_size - 1))

\* C1, amended: an open-ended header bytes=<start>- reaches the continuation
\* as bytes=<start>-<start+chunk_size-1> when start + chunk_size fits in u64,
\* and unchanged when it does not.
C1_OpenRewritten ==
    \A t \in Threads : AtContinuation(t) =>
        \A r \in OpenRanges :
            Got(t, r.text) =>
                IF r.s + http_chunk_size <= U64_MAX
                THEN Sends(t, ClosedHeader(r.s, r.s + http_chunk_size - 1))
                ELSE Sends(t, r.text)

C1_Witness ==
    \E t \in Threads :
        /\ pc[t] = "done"
        /\ Got(t, OpenHeader(U64_MAX - 1))
        /\ http_chunk_size = 1
        /\ Sends(t, ClosedHeader(U64_MAX - 1, U64_MAX - 1))

\* the requested size of bytes=<s>-<e> with both saturations of line 669
SaturatedSize(s, e) ==
    IF e < s THEN 1
    ELSE IF e - s + 1 > U64_MAX THEN U64_MAX ELSE e - s + 1

\* C2: a closed header bytes=<start>-<end> whose requested size (saturating)
\* is at most chunk_size reaches the continuation unchanged.
C2_SmallUnchanged ==
    \A t \in Threads : AtContinuation(t) =>
        \A r \in ClosedRanges :
            (Got(t, r.text) /\ SaturatedSize(r.s, r.e) <= http_chunk_size)
                => Sends(t, r.text)

C2_Witness ==
    \E t \in Threads :
        /\ pc[t] = "done"
        /\ Got(t, ClosedHeader(1, 0))
        /\ Sends(t, ClosedHeader(1, 0))
        /\ outcome[t] = "unchanged"

\* C3 as stated: a closed header bytes=<start>-<end> with end-start+1 >
\* chunk_size is rewritten to end at start+chunk_size-1, over the whole u64
\* domain, and never takes the overflow abort.
C3_LargeRewritten ==
    \A t \in Threads : AtContinuation(t) =>
        \A r \in ClosedRanges :
            (Got(t, r.text) /\ r.e - r.s + 1 > http_chunk_size)
                => /\ Sends(t, ClosedHeader(r.s, r.s + http_chunk_size - 1))
                   /\ outcome[t] /= "overflow"

\* C4: when the policy says rewrite (an open-ended header) and start +
\* chunk_size exceeds u64::MAX, the original header is forwarded unchanged;
\* and whatever header replaces the received one starts at the parsed start
\* and ends at the true, unwrapped start + chunk_size - 1.
C4_OverflowAbandoned ==
    \A t \in Threads : AtContinuation(t) =>
        /\ \A r \in OpenRanges :
              (Got(t, r.text) /\ r.s + http_chunk_size > U64_MAX)
                  => (Sends(t, r.text) /\ outcome[t] = "overflow")
        /\ hdr[t] /= received[t] =>
              /\ start[t] + http_chunk_size - 1 <= U64_MAX
              /\ Sends(t, ClosedHeader(start[t], start[t] + http_chunk_size - 1))

C4_Witness ==
    \E t \in Threads :
        /\ pc[t] = "done"
        /\ Got(t, OpenHeader(U64_MAX))
        /\ http_chunk_size = 1
        /\ outcome[t] = "overflow"
        /\ Sends(t, OpenHeader(U64_MAX))

\* v is a closed range bytes=<s>-<e> of at most chunk bytes
ClosedWithin(v, chunk) ==
    /\ IsSome(StripPrefix(v, BytesPrefix))
    /\ LET parts == SplitOnce(Unwrap(StripPrefix(v, BytesPrefix)), "-")
       IN  /\ IsSome(parts)
           /\ IsSome(ParseU64(Unwrap(parts)[1]))
           /\ IsSome(ParseU64(Unwrap(parts)[2]))
           /\ Unwrap(ParseU64(Unwrap(parts)[2])) - Unwrap(ParseU64(Unwrap(parts)[1])) + 1
                <= chunk

\* C5 as stated: every request that arrives with a well-formed single-range
\* header reaches the continuation with a closed range of at most chunk_size
\* bytes.
C5_SpanCapped ==
    \A t \in Threads : AtContinuation(t) =>
        (received[t] \in WellFormedRequests
            => ClosedWithin(hdr[t][1], http_chunk_size))

\* C6: a Range header that fails to parse reaches the continuation unchanged;
\* the request goes straight from the parse to the continuation, which is
\* called once, and no such header makes the handler panic.
C6_ParseFailureForwarded ==
    \A t \in Threads :
        received[t] \in MalformedRequests
            => /\ pc[t] \in {"call", "done"}
               /\ hdr[t] = received[t]
               /\ calls[t] = (IF pc[t] = "done" THEN 1 ELSE 0)

C6_Witness ==
    \E t \in Threads :
        /\ pc[t] = "done"
        /\ Got(t, BytesPrefix \o <<"-", "5", "0", "0">>)
        /\ Sends(t, BytesPrefix \o <<"-", "5", "0", "0">>)
        /\ outcome[t] = "invalid_start"
        /\ calls[t] = 1

\* C7: under every interleaving of acquire and release, a tier's
\* allocated_count starts at its initial count and never exceeds max_buffers.
C7_AllocatedBounded ==
    \A r \in Tiers :
        /\ allocated_count[r] >= InitialCount(r)
        /\ allocated_count[r] <= MaxBuffers(r)

C7_Witness ==
    \E t \in Threads :
        /\ pc[t] = "gb_sleep"
        /\ allocated_count[tier[t]] = MaxBuffers(tier[t])
        /\ available_buffers[tier[t]] = <<>>

\* the fixed buffer size of the size class of n, from section 4.2 of the spec
FixedSizeFor(n) ==
    IF n <= 5 * MiB THEN 5 * MiB
    ELSE IF n <= 20 * MiB THEN 20 * MiB
    ELSE 50 * MiB

\* the tier named by a fixed buffer size
TierNamed(n) ==
    IF n = 5 * MiB THEN "small" ELSE IF n = 20 * MiB THEN "medium" ELSE "large"

\* C8: with the pool enabled, the buffer acquire(size) returns comes from the
\* tier chosen by size alone and has length and capacity equal to that tier's
\* fixed size, reused or freshly allocated.
C8_TierFixedSize ==
    pool_enabled =>
        \A t \in Threads :
            pc[t] \in {"gb_hit", "got"} =>
                /\ buf[t] /= NoBuf
                /\ buf[t].len = FixedSizeFor(size[t])
                /\ buf[t].cap = FixedSizeFor(size[t])
                /\ buf[t].origin = TierNamed(FixedSizeFor(size[t]))
                /\ tier[t] = TierNamed(FixedSizeFor(size[t]))

C8_Witness ==
    /\ pool_enabled
    /\ \E t \in Threads, u \in Threads :
        /\ t /= u
        /\ pc[t] = "got" /\ pc[u] = "got"
        /\ size[t] = 20 * MiB /\ size[u] = 20 * MiB
        /\ buf[t].cap = 20 * MiB /\ buf[u].cap = 20 * MiB
        /\ pool_misses["medium"] = 1
        /\ pool_hits["medium"] >= 1

\* C9: every buffer in a tier's free list has at least the tier's fixed
\* capacity and was allocated by that tier; the tier a held buffer's capacity
\* names on release is the tier it was acquired from, and its capacity is that
\* tier's fixed size, so that release then acquire returns the same capacity.
C9_FreeListHomogeneous ==
    /\ \A r \in Tiers : \A k \in 1..Len(available_buffers[r]) :
          /\ available_buffers[r][k].cap >= BufferSize(r)
          /\ available_buffers[r][k].origin = r
    /\ pool_enabled =>
          \A t \in Threads :
              pc[t] = "got" =>
                  /\ TierOfCapacity(buf[t].cap) = buf[t].origin
                  /\ tier[t] = buf[t].origin
                  /\ buf[t].cap = BufferSize(tier[t])

C9_Witness ==
    /\ Len(available_buffers["large"]) = 2
    /\ allocated_count["large"] = 3
    /\ \A t \in Threads : buf[t] = NoBuf

\* C10: whenever should_prefetch emits a candidate, the candidate's start does
\* not lie within the inclusive bounds of any range tracked for that url at
\* that moment, ranges emitted earlier in the same call included.
C10_NoCollision ==
    [][\A t \in Threads :
          (pc[t] = "sp_loop" /\ Len(sp_out'[t]) = Len(sp_out[t]) + 1) =>
              LET c == sp_out'[t][Len(sp_out'[t])]
                  tracked == Unwrap(active_downloads[url[t]])
              IN  /\ \A k \in 1..Len(tracked) :
                        ~(tracked[k][1] <= c[1] /\ c[1] <= tracked[k][2])
                  /\ \A k \in 1..Len(sp_out[t]) :
                        ~(sp_out[t][k][1] <= c[1] /\ c[1] <= sp_out[t][k][2])
                  /\ tracked' = Append(tracked, c)
      ]_vars

C10_Witness ==
    \E t \in Threads :
        /\ pc[t] = "sp_loop"
        /\ sp_n[t] = 2
        /\ sp_i[t] = 3
        /\ Len(sp_out[t]) = 1
        /\ \E u \in Threads \ {t} :
              /\ url[u] = url[t]
              /\ pc[u] \in {"pf_next", "get", "got", "timer", "timer_check"}
              /\ ranges[u] /= <<>>

\* C11 as stated: no request panics, and whenever should_prefetch runs (the
\* rewrite has succeeded) every value it computes fits in u64:
\* max_concurrent - 1, 2 * prefetch_size, current_end, and each candidate's
\* prefetch_start + chunk_size; so every tracked range ends chunk_size - 1
\* bytes after its start.
C11_ArithmeticInDomain ==
    /\ \A t \in Threads :
          /\ pc[t] /= "panicked"
          /\ pc[t] = "sp_loop" =>
                /\ max_concurrent >= 1
                /\ 2 * prefetch_size <= U64_MAX
                /\ start[t] + http_chunk_size <= U64_MAX
                /\ \A i \in 1..sp_n[t] :
                      start[t] + (i + 1) * http_chunk_size <= U64_MAX
    /\ \A u \in Urls :
          IsSome(active_downloads[u]) =>
              \A k \in 1..Len(Unwrap(active_downloads[u])) :
                  Unwrap(active_downloads[u])[k][2]
                      = Unwrap(active_downloads[u])[k][1] + http_chunk_size - 1

\* C12: with prefetching disabled, should_prefetch returns no range (the
\* request asks the pool for no prefetch buffer) and the table of tracked
\* ranges stays as constructed, without any entry, whatever calls were made.
C12_DisabledNoEffect ==
    ~enabled =>
        /\ \A u \in Urls : active_downloads[u] = None
        /\ active_lock = 0 /\ ~active_poisoned
        /\ \A t \in Threads :
              /\ ranges[t] = <<>>
              /\ ret[t] /= "pf"
              /\ pc[t] \notin {"sp_loop", "pf_next", "panicked"}

C12_Witness ==
    /\ ~enabled
    /\ reqs_left = 0
    /\ \A t \in Threads : pc[t] = "done" /\ outcome[t] = "rewritten" /\ idx[t] = 1
    /\ \A u \in Urls : active_downloads[u] = None

\* C13: with the pool disabled, an acquire is never made to wait and returns a
\* fresh buffer of exactly the requested size, and no tier's free list,
\* allocated_count, hits or misses ever differs from its value at start-up.
C13_UnpooledFrame ==
    ~pool_enabled =>
        /\ available_buffers = [r \in Tiers |-> InitialBuffers(r)]
        /\ allocated_count = [r \in Tiers |-> InitialCount(r)]
        /\ pool_hits = [r \in Tiers |-> 0]
        /\ pool_misses = [r \in Tiers |-> 0]
        /\ \A r \in Tiers : avail_lock[r] = 0 /\ count_lock[r] = 0
        /\ \A t \in Threads :
              /\ pc[t] \notin {"gb_hit", "gb_count", "gb_miss", "gb_sleep"}
              /\ pc[t] = "get" => ENABLED GetBufferUnpooled(t)
              /\ pc[t] = "got" =>
                    buf[t] = [len |-> size[t], cap |-> size[t], origin |-> "heap"]

C13_Witness ==
    /\ ~pool_enabled
    /\ \E t \in Threads :
          /\ pc[t] = "got"
          /\ ret[t] = "pf"
          /\ idx[t] = 3
          /\ buf[t].len = 2

\* how often range r occurs in the sequence of ranges q
Occurrences(q, r) == Cardinality({k \in 1..Len(q) : q[k] = r})

\* C14 as stated: a call of should_prefetch that follows a call with the
\* same url and start, no other call in between, returns none of the ranges
\* the first call returned, and leaves each of them tracked at most once.
C14_SecondCallAddsNothing ==
    [][\A t \in Threads :
          (/\ pc[t] = "sp_loop" /\ pc'[t] = "pf_next"
           /\ IsSome(last_call)
           /\ Unwrap(last_call).url = url[t]
           /\ Unwrap(last_call).start = start[t]) =>
              LET first == Unwrap(last_call).out
                  tracked == Unwrap(active_downloads'[url[t]])
              IN  \A k \in 1..Len(first) :
                      /\ Occurrences(ranges'[t], first[k]) = 0
                      /\ Occurrences(tracked, first[k]) <= 1
      ]_vars

\* the control points inside get_buffer_for_size
AcquirePcs == {"get", "gb_hit", "gb_count", "gb_miss", "gb_sleep"}

\* requests inside get_buffer of tier r at control point p
Inside(r, p) == Cardinality({t \in Threads : pc[t] = p /\ tier[t] = r})

\* what each step of an acquire on tier tier[t] does to the tier
C15_Step(t) ==
    LET r == tier'[t]
        same(x) == x'[r] = x[r]
        counters == same(allocated_count) /\ same(pool_hits) /\ same(pool_misses)
    IN  /\ (pc[t] = "get" /\ pc'[t] = "gb_hit") =>
              /\ available_buffers[r] /= <<>>
              /\ available_buffers'[r] = Tail(available_buffers[r])
              /\ counters
        /\ (pc[t] = "gb_hit" /\ pc'[t] = "got") =>
              /\ pool_hits'[r] = pool_hits[r] + 1
              /\ same(allocated_count) /\ same(pool_misses) /\ same(available_buffers)
        /\ (pc[t] = "get" /\ pc'[t] = "gb_count") =>
              /\ available_buffers[r] = <<>>
              /\ same(available_buffers) /\ counters
        /\ (pc[t] = "gb_count" /\ pc'[t] = "gb_miss") =>
              /\ allocated_count[r] < MaxBuffers(r)
              /\ available_buffers[r] = <<>>
              /\ allocated_count'[r] = allocated_count[r] + 1
              /\ same(pool_hits) /\ same(pool_misses) /\ same(available_buffers)
        /\ (pc[t] = "gb_miss" /\ pc'[t] = "got") =>
              /\ pool_misses'[r] = pool_misses[r] + 1
              /\ same(allocated_count) /\ same(pool_hits) /\ same(available_buffers)
        /\ (pc[t] \in {"gb_count", "gb_sleep"} /\ pc'[t] \in {"gb_sleep", "get"}) =>
              /\ same(available_buffers) /\ counters

\* the counters of every tier add up; under the contended pool, where every
\* request acquires once, hits + misses is the number of completed acquires
C15_Counts ==
    /\ \A r \in Tiers :
          allocated_count[r] = InitialCount(r) + pool_misses[r] + Inside(r, "gb_miss")
    /\ (workload = "pool") =>
          LET r == TierOfSize(http_chunk_size)
              started == MaxRequests - reqs_left
              inside == Cardinality({t \in Threads : pc[t] \in AcquirePcs})
          IN  pool_hits[r] + pool_misses[r] = started - inside

\* C15: a completed acquire is a hit (one buffer popped, hits + 1) or a miss
\* (free list empty, allocated_count below the maximum, allocated_count + 1
\* and misses + 1), a retry changes nothing; so hits + misses counts the
\* completed acquires and allocated_count is the initial count plus misses.
C15_HitMissAccounting ==
    /\ []C15_Counts
    /\ [][\A t \in Threads : (pool_enabled /\ pc'[t] /= pc[t]) => C15_Step(t)]_vars

C15_Witness ==
    /\ workload = "pool"
    /\ \A t \in Threads : pc[t] = "done"
    /\ pool_misses["large"] = 3
    /\ pool_hits["large"] + pool_misses["large"] = MaxRequests

\* C16: a release pushes the buffer onto its tier's free list exactly when
\* the list holds fewer than max_buffers / 2 buffers and drops it otherwise;
\* and no tier's free list is ever longer than max_buffers / 2 (8, 4, 2).
C16_FreeListHalf ==
    /\ [](\A r \in Tiers : Len(available_buffers[r]) <= MaxBuffers(r) \div 2)
    /\ [][\A t \in Threads :
            (pool_enabled /\ pc[t] = "got" /\ pc'[t] = "timer") =>
                LET r == tier[t]
                    free == available_buffers[r]
                IN  /\ MaxBuffers(r) \div 2 = (IF r = "small" THEN 8 ELSE IF r = "medium" THEN 4 ELSE 2)
                    /\ available_buffers'[r] =
                         (IF Len(free) < MaxBuffers(r) \div 2 THEN Append(free, buf[t]) ELSE free)
                    /\ buf'[t] = NoBuf
         ]_vars

C16_Witness ==
    /\ Len(available_buffers["large"]) = 2
    /\ allocated_count["large"] = 4
    /\ \E t \in Threads : pc[t] = "timer" /\ tier[t] = "large"
    /\ \E t \in Threads : pc[t] = "got" /\ tier[t] = "large"

\* the Mutexes: per tier the free list, the allocation counter, the hit
\* counter and the miss counter; the range table; the stats timestamp
AllLocks ==
    {<<k, r>> : k \in {"avail", "count", "hits", "misses"}, r \in Tiers}
        \cup {<<"active", "-">>, <<"timer", "-">>}

\* the request holding a lock, 0 when it is free; the guards of the hit and
\* miss counters live within one statement (lines 249, 257, 279, 280)
Holder(l) ==
    CASE l[1] = "avail" -> avail_lock[l[2]]
      [] l[1] = "count" -> count_lock[l[2]]
      [] l[1] = "active" -> active_lock
      [] l[1] = "timer" -> timer_lock
      [] OTHER -> 0

Held(t) == {l \in AllLocks : Holder(l) = t}

\* the locks the next step of request t takes
Wants(t) ==
    CASE pc[t] = "get" /\ pool_enabled -> {<<"avail", TierOfSize(size[t])>>}
      [] pc[t] = "gb_hit" -> {<<"hits", tier[t]>>}
      [] pc[t] = "gb_count" -> {<<"count", tier[t]>>}
      [] pc[t] = "gb_miss" -> {<<"misses", tier[t]>>}
      [] pc[t] = "got" /\ pool_enabled -> {<<"avail", TierOfCapacity(buf[t].cap)>>}
      [] pc[t] = "timer" -> {<<"timer", "-">>}
      [] pc[t] = "timer_check" /\ pool_enabled /\ StatsDue(stats_timer, clock) ->
            {<<k, r>> : k \in {"hits", "misses"}, r \in Tiers}
      [] pc[t] = "decide" /\ enabled -> {<<"active", "-">>}
      [] OTHER -> {}

\* an order in which every lock is taken after the locks already held
Rank(l) ==
    CASE l[1] \in {"avail", "active", "timer"} -> 1
      [] l[1] = "count" -> 2
      [] OTHER -> 3

InFlight(t) == pc[t] \notin {"idle", "done", "panicked"}

\* C17: a request sleeping in the exhaustion retry holds no lock; a request
\* takes a lock only of higher rank than those it holds; a request that holds
\* a lock never waits for one that is held; and a request whose next locks
\* are free can take its step: no set of requests waits on each other.
C17_NoDeadlock ==
    \A t \in Threads :
        /\ pc[t] = "gb_sleep" => Held(t) = {}
        /\ ~InFlight(t) => Held(t) = {}
        /\ \A h \in Held(t), w \in Wants(t) : Rank(h) < Rank(w)
        /\ Held(t) /= {} => \A w \in Wants(t) : Holder(w) = 0
        /\ (InFlight(t) /\ \A w \in Wants(t) : Holder(w) = 0) => ENABLED Step(t)

C17_Witness ==
    \E t \in Threads, u \in Threads, v \in Threads :
        /\ pc[t] = "gb_sleep"
        /\ pc[u] = "timer" /\ available_buffers[tier[t]] /= <<>>
        /\ pc[v] = "got" /\ Wants(v) = {<<"avail", tier[t]>>}

\* tier r has nothing to give: its free list is empty and it may not allocate
Exhausted(r) == available_buffers[r] = <<>> /\ allocated_count[r] = MaxBuffers(r)

\* request u releases its buffer to tier r in this step
Releases(u, r) ==
    /\ pc[u] = "got" /\ pc'[u] = "timer"
    /\ TierOfCapacity(buf[u].cap) = r

\* C18: while its tier is exhausted, a request inside acquire stays inside
\* acquire without a buffer, and its own steps (lock, test, sleep, retry)
\* leave the tier's free list and counters as they are; an exhausted tier
\* stops being exhausted only by a release that pushes a buffer onto its free
\* list.  So the acquire returns only after such a release, and never if
\* there is none.
C18_ExhaustedWaits ==
    [][/\ \A t \in Threads :
            LET r == TierOfSize(size[t])
            IN  (pool_enabled /\ pc[t] \in {"get", "gb_count", "gb_sleep"} /\ Exhausted(r)) =>
                    /\ pc'[t] \in {"get", "gb_count", "gb_sleep"}
                    /\ buf'[t] = NoBuf
                    /\ pc'[t] /= pc[t] =>
                          /\ available_buffers'[r] = available_buffers[r]
                          /\ allocated_count'[r] = allocated_count[r]
                          /\ pool_hits'[r] = pool_hits[r]
                          /\ pool_misses'[r] = pool_misses[r]
       /\ \A r \in Tiers :
            (Exhausted(r) /\ ~Exhausted(r)') =>
                \E u \in Threads :
                    Releases(u, r) /\ available_buffers'[r] = <<buf[u]>>
      ]_vars

C18_Witness ==
    \E t \in Threads :
        /\ pc[t] = "gb_sleep"
        /\ Exhausted(tier[t])
        /\ \A u \in Threads \ {t} : pc[u] = "got" /\ tier[u] = tier[t]

\* the number of bytes of the range r, counted modulo the word
RangeSize(r) == (r[2] - r[1] + 1) % (U64_MAX + 1)

\* acquire and release, for each range of rs in order
RECURSIVE PerRange(_)
PerRange(rs) ==
    IF rs = <<>> THEN <<>>
    ELSE <<Acquired(RangeSize(Head(rs))), Released>> \o PerRange(Tail(rs))

\* the steps of a rewritten request whose call of decide returned rs
Plan(t, rs) ==
    <<Replaced(hdr[t][1]), Acquired(http_chunk_size), Released,
      Decided(url[t], start[t], http_chunk_size)>> \o PerRange(rs)

IsPrefix(s, p) == Len(s) <= Len(p) /\ SubSeq(p, 1, Len(s)) = s

\* C19: what has been done for a rewritten request is at every moment an
\* initial part of: header replaced, acquire(chunk_size), release,
\* decide(url, start, chunk_size), then acquire(range size), release for each
\* returned range in order; all of it has been done when the request is handed
\* to the continuation.  The request holds a buffer only between an acquire
\* and the release that follows it (or while get_buffer is handing it out),
\* and none at the continuation.
C19_StepOrder ==
    \A t \in Threads :
        (outcome[t] = "rewritten" /\ pc[t] /= "idle") =>
            /\ IsPrefix(steps[t], Plan(t, ranges[t]))
            /\ AtContinuation(t) => steps[t] = Plan(t, ranges[t])
            /\ pc[t] = "got" <=> steps[t][Len(steps[t])][1] = "acquire"
            /\ buf[t] /= NoBuf <=> pc[t] \in {"gb_hit", "got"}
            /\ AtContinuation(t) => buf[t] = NoBuf

\* a request handed over after two prefetch ranges got their buffers
C19_Witness ==
    \E t \in Threads :
        /\ pc[t] = "done"
        /\ outcome[t] = "rewritten"
        /\ Len(ranges[t]) = 2
        /\ Len(steps[t]) = 8

\* r is an element of the sequence q
InSeq(r, q) == \E i \in 1..Len(q) : q[i] = r

\* C20: when a call decide(url, start, chunk_size) returns, the tracked list
\* of url contains the served range [start, start + chunk_size - 1] and every
\* returned range, still contains every range tracked before whose start is at
\* or ahead of start, and contains no range whose start s has
\* start - s >= 2 * prefetch_size.
C20_TrackedAfterDecide ==
    [][\A t \in Threads :
          (pc[t] = "sp_loop" /\ pc'[t] = "pf_next") =>
              LET before == Unwrap(active_downloads[url[t]])
                  after == Unwrap(active_downloads'[url[t]])
              IN  /\ InSeq(<<start[t], start[t] + http_chunk_size - 1>>, after)
                  /\ \A i \in 1..Len(sp_out[t]) : InSeq(sp_out[t][i], after)
                  /\ \A i \in 1..Len(before) :
                        before[i][1] >= start[t] => InSeq(before[i], after)
                  /\ \A i \in 1..Len(after) :
                        ~(start[t] - after[i][1] >= 2 * prefetch_size)
      ]_vars

\* the i-th range past the served one, as the claim writes it
Candidate(s, c, i) == <<s + i * c, s + (i + 1) * c - 1>>

\* q lists Candidate(s, c, i) for increasing i, each i from 1..n, starting
\* above i = lo
RECURSIVE IncreasingCandidates(_, _, _, _, _)
IncreasingCandidates(q, s, c, lo, n) ==
    \/ q = <<>>
    \/ \E i \in (lo + 1)..n :
          /\ Head(q) = Candidate(s, c, i)
          /\ IncreasingCandidates(Tail(q), s, c, i, n)

\* C21: the sequence that decide(url, start, chunk_size) returned has at most
\* min(prefetch_size / chunk_size, max_concurrent - 1) ranges, and they are
\* [start + i * chunk_size, start + (i + 1) * chunk_size - 1] for increasing
\* i out of 1..that number.
C21_ReturnedRanges ==
    \A t \in Threads :
        (enabled /\ pc[t] = "pf_next") =>
            LET budget == Min(prefetch_size \div http_chunk_size, max_concurrent - 1)
            IN  /\ Len(ranges[t]) <= budget
                /\ IncreasingCandidates(ranges[t], start[t], http_chunk_size, 0, budget)

\* request t finishes a release (return_download_buffer) in this step
EndsRelease(t) == pc[t] = "timer_check" /\ pc'[t] /= "timer_check"

\* C22: the last-emitted timestamp changes only at the end of a release; the
\* first release after start-up emits and sets it; and an emission that
\* replaces a timestamp sets one that is at least StatsIntervalSecs later, so
\* that consecutive emissions are at least that far apart.
C22_StatsInterval ==
    [][/\ stats_timer' /= stats_timer => \E t \in Threads : EndsRelease(t)
       /\ \A t \in Threads :
            EndsRelease(t) =>
                /\ ~IsSome(stats_timer) => IsSome(stats_timer')
                /\ (IsSome(stats_timer) /\ stats_timer' /= stats_timer) =>
                      Unwrap(stats_timer') - Unwrap(stats_timer) >= StatsIntervalSecs
      ]_vars

\* the outcomes of a request whose header is not replaced: no Range header,
\* a value that is no byte range or whose start does not parse, a range left
\* as it is (closed within chunk_size, or with an end that does not parse),
\* the overflow abort
NotRewritten ==
    {"no_range", "invalid_utf8", "not_bytes", "malformed", "invalid_start", "unchanged",
     "overflow", "bad_value"}

\* C23: every step of a request that is not rewritten leaves the tiers' free
\* lists and counters, the table of tracked ranges and the statistics
\* timestamp as they were, and the request goes straight to the continuation.
C23_NotRewrittenFrame ==
    [][\A t \in Threads :
          (pc'[t] /= pc[t] /\ outcome'[t] \in NotRewritten) =>
              /\ pc'[t] \in {"call", "done"}
              /\ UNCHANGED <<available_buffers, allocated_count, pool_hits, pool_misses,
                             active_downloads, stats_timer>>
      ]_vars

\* a request without Range header went through after earlier requests had
\* filled the table and stamped the statistics timer
C23_Witness ==
    \E t \in Threads :
        /\ pc[t] = "done"
        /\ outcome[t] = "no_range"
        /\ IsSome(stats_timer)
        /\ IsSome(active_downloads[url[t]])
        /\ Unwrap(active_downloads[url[t]]) /= <<>>

\* the requests that hold a buffer of tier r
Borrowers(r) == {t \in Threads : buf[t] /= NoBuf /\ buf[t].origin = r}

\* the buffers of tier r that exist: on its free list or borrowed
Live(r) == Len(available_buffers[r]) + Cardinality(Borrowers(r))

\* C24: allocated_count of a tier never decreases, a release leaves it as it
\* is, and once it has reached max_buffers it stays there: no later acquire
\* allocates.  At every moment the buffers of a tier that exist are at most
\* allocated_count.
C24_CountMonotone ==
    /\ [](\A r \in Tiers : Live(r) <= allocated_count[r])
    /\ [][\A r \in Tiers :
            /\ allocated_count'[r] >= allocated_count[r]
            /\ (\E u \in Threads : Releases(u, r)) => allocated_count'[r] = allocated_count[r]
            /\ allocated_count[r] = MaxBuffers(r) =>
                  /\ allocated_count'[r] = MaxBuffers(r)
                  /\ \A t \in Threads :
                        (pc'[t] = "gb_miss" /\ tier'[t] = r) => pc[t] = "gb_miss"
         ]_vars

\* a request waits on a tier that has reached max_buffers although one of
\* its buffers has been dropped
C24_Witness ==
    \E t \in Threads :
        /\ pc[t] = "gb_sleep"
        /\ allocated_count[tier[t]] = MaxBuffers(tier[t])
        /\ Live(tier[t]) < allocated_count[tier[t]]

\* request t is inside acquire on tier r and has no buffer yet
Waiting(t, r) ==
    /\ pool_enabled
    /\ pc[t] \in {"get", "gb_count", "gb_sleep"}
    /\ TierOfSize(size[t]) = r

\* an acquire on tier r has its buffer and is about to return it to its caller
Completing(r) == \E u \in Threads : pc[u] \in {"gb_hit", "gb_miss"} /\ tier[u] = r

\* no tier is at max_buffers with an empty free list and no buffer borrowed
NeverStuck == \A r \in Tiers : ~(Exhausted(r) /\ Borrowers(r) = {})

\* whenever a request waits in acquire on an exhausted tier, some acquire on
\* that tier comes to the point of returning a buffer
WaitingServed ==
    \A r \in Tiers :
        ((\E t \in Threads : Waiting(t, r)) /\ Exhausted(r)) ~> Completing(r)

\* an acquire that has come to the point of returning a buffer returns
CompletingReturns ==
    \A t \in Threads : (pc[t] \in {"gb_hit", "gb_miss"}) ~> (pc[t] = "got")

\* a release that asks for the lock of its free list again and again gets it
FairFreeListLock == \A t \in Threads : SF_vars(ReturnBuffer(t))

=============================================================================
